---- MODULE Spec2Model ----
(***************************************************************************)
(* Model of basicFileChunkingMerging/program.cpp: chunkFile, joinFile,     *)
(* chunkCSV and joinCSV acting on a working directory.                     *)
(*                                                                         *)
(* A path and a file content are both sequences of one-character strings.  *)
(* The working directory fs is a function from the paths that exist to     *)
(* their content.  Each loop of the program is modelled one iteration per  *)
(* step, so that a loop that never ends is a behaviour of the model.       *)
(***************************************************************************)
EXTENDS Naturals, Sequences, FiniteSets, TLC

(***************************************************************************)
(* Bounds of the model.                                                    *)
(***************************************************************************)
MaxLen == 3        \* longest binary source, in bytes
MaxChunk == 3      \* largest chunk size / threshold, in bytes
MaxParts == 3      \* part indices that may pre-exist in the directory
MaxLines == 3      \* most data lines of a line-oriented source
MaxRetry == 2      \* failed opens of one part that the model counts

LF == "\n"
CR == "\r"
None == <<>>       \* "no path": the closed state of a stream

(***************************************************************************)
(* std::string helpers.                                                    *)
(***************************************************************************)
Digit(d) ==
  CASE d = 0 -> "0" [] d = 1 -> "1" [] d = 2 -> "2" [] d = 3 -> "3"
    [] d = 4 -> "4" [] d = 5 -> "5" [] d = 6 -> "6" [] d = 7 -> "7"
    [] d = 8 -> "8" [] OTHER -> "9"

RECURSIVE to_string(_)
to_string(n) ==
  IF n < 10 THEN <<Digit(n)>> ELSE to_string(n \div 10) \o <<Digit(n % 10)>>

\* string::npos is modelled by 0 (positions are 1-based here).
npos == 0

RECURSIVE find_last_of_from(_, _, _)
find_last_of_from(s, ch, i) ==
  IF i = 0 THEN npos
  ELSE IF s[i] = ch THEN i ELSE find_last_of_from(s, ch, i - 1)

find_last_of(s, ch) == find_last_of_from(s, ch, Len(s))

substr(s, pos) == SubSeq(s, pos, Len(s))

\* program.cpp 19-22: the source's extension, from its last dot on.
OriginalExtension(path) ==
  LET dotPos == find_last_of(path, ".")
  IN  IF dotPos # npos THEN substr(path, dotPos) ELSE <<>>

\* program.cpp 29 and 64: chunkName + to_string(counter) + extension.
PartName(prefix, k, ext) == prefix \o to_string(k) \o ext

CsvExt == <<".", "c", "s", "v">>
BinExt == <<".", "b", "i", "n">>

\* program.cpp 115 and 161: chunkPrefix + to_string(counter) + ".csv".
CsvPartName(prefix, k) == prefix \o to_string(k) \o CsvExt

\* program.cpp 231 and 224: "output" + extension, "output.csv".
OutputBase == <<"o", "u", "t", "p", "u", "t">>
OutputName(ext) == OutputBase \o ext

Min(a, b) == IF a < b THEN a ELSE b

(***************************************************************************)
(* Streams.                                                                *)
(***************************************************************************)
\* istream::read(buffer, n) at offset pos of content c: the bytes obtained.
ReadBytes(c, pos, n) == SubSeq(c, pos + 1, Min(pos + n, Len(c)))

\* std::getline at offset pos of content c: the characters up to the next
\* '\n' or the end of c.  ok is false when nothing at all could be
\* extracted; eof is set when the end of c was hit while scanning.
RECURSIVE ScanLine(_, _)
ScanLine(c, i) ==
  IF i > Len(c) THEN i
  ELSE IF c[i] = LF THEN i ELSE ScanLine(c, i + 1)

GetLine(c, pos) ==
  LET stop == ScanLine(c, pos + 1)
  IN  IF pos >= Len(c)
      THEN [ok |-> FALSE, line |-> <<>>, pos |-> pos, eof |-> TRUE]
      ELSE IF stop > Len(c)
      THEN [ok |-> TRUE, line |-> SubSeq(c, pos + 1, Len(c)),
            pos |-> Len(c), eof |-> TRUE]
      ELSE [ok |-> TRUE, line |-> SubSeq(c, pos + 1, stop - 1),
            pos |-> stop, eof |-> FALSE]

\* All lines of c as getline yields them, from offset pos on.
RECURSIVE LinesFrom(_, _)
LinesFrom(c, pos) ==
  LET g == GetLine(c, pos)
  IN  IF g.ok THEN <<g.line>> \o LinesFrom(c, g.pos) ELSE <<>>

Lines(c) == LinesFrom(c, 0)

\* operator<< of a line followed by "\n": the content c of the file after it.
WriteLine0(c, line) == c \o line \o <<LF>>

(***************************************************************************)
(* The working directories the model starts from.                          *)
(***************************************************************************)
SeqsUpTo(S, n) == UNION {[1..k -> S] : k \in 0..n}

Prefix == <<"p">>
BinSource == <<"s">> \o BinExt
CsvSource == <<"s">> \o CsvExt

\* Sources of the binary pipeline.
BinContents == SeqsUpTo({"A", "B"}, MaxLen)

\* Sources of the line-oriented pipeline: a header "h" and data lines "" and
\* "a", separated by LF or CR LF (getline then yields lines of length 0 to
\* 2), the last line terminated or not; and the file with no line at all.
DataLines == {<<>>, <<"a">>}

RECURSIVE JoinLines(_, _)
JoinLines(ls, eol) ==
  IF ls = <<>> THEN <<>>
  ELSE IF Len(ls) = 1 THEN ls[1]
  ELSE ls[1] \o eol \o JoinLines(Tail(ls), eol)

CsvText(ls, eol, last) == JoinLines(ls, eol) \o (IF last THEN eol ELSE <<>>)

CsvContents ==
  {<<>>} \cup
  {CsvText(<<<<"h">>>> \o d, eol, last) :
     d \in SeqsUpTo(DataLines, MaxLines), eol \in {<<LF>>, <<CR, LF>>},
     last \in BOOLEAN}

\* A part left in the directory by an earlier run.
StaleBin(k) == <<"Z", Digit(k)>>
StaleCsv(k) == <<"h", LF, "z", Digit(k), LF>>

BinPart(k) == PartName(Prefix, k, BinExt)
CsvPart(k) == CsvPartName(Prefix, k)

StalePartName(ext, k) == IF ext = CsvExt THEN CsvPart(k) ELSE BinPart(k)
StalePart(ext, k) == IF ext = CsvExt THEN StaleCsv(k) ELSE StaleBin(k)

\* An output left in the directory by an earlier run.
StaleOutput == <<"O", "O">>

WithFile(dir, path, c) ==
  [n \in DOMAIN dir \cup {path} |-> IF n = path THEN c ELSE dir[n]]

EmptyDirectory == [n \in {} |-> <<>>]

\* What a stale part k may hold: its stale content, and for the first part
\* of the line-oriented pipeline also nothing at all.
StaleContents(ext, k) ==
  {StalePart(ext, k)} \cup (IF ext = CsvExt /\ k = 1 THEN {<<>>} ELSE {})

RECURSIVE PartsOnly(_, _)
PartsOnly(ext, k) ==
  IF k = 0 THEN {EmptyDirectory}
  ELSE LET rest == PartsOnly(ext, k - 1)
       IN  rest \cup {WithFile(d, StalePartName(ext, k), c) :
                        d \in rest, c \in StaleContents(ext, k)}

\* The directories of one pipeline: any set of stale parts, with the source
\* present with some content, or with the source absent and the output of an
\* earlier run present or not.
DirectoriesOf(src, contents, ext) ==
  LET stale == PartsOnly(ext, MaxParts)
  IN  {WithFile(d, src, c) : d \in stale, c \in contents}
      \cup stale
      \cup {WithFile(d, OutputName(ext), StaleOutput) : d \in stale}

\* What main starts from: a directory and the file path the user enters,
\* which names the source or, in a directory of parts that holds it, the
\* first part of the prefix.
ScenariosOf(src, contents, ext) ==
  {[dir |-> d, path |-> src] : d \in DirectoriesOf(src, contents, ext)}
  \cup
  {[dir |-> d, path |-> StalePartName(ext, 1)] :
     d \in {e \in PartsOnly(ext, MaxParts) :
              StalePartName(ext, 1) \in DOMAIN e}}

Scenarios ==
  ScenariosOf(BinSource, BinContents, BinExt)
  \cup ScenariosOf(CsvSource, CsvContents, CsvExt)

\* The paths that cannot be opened for writing: none, one part, or the
\* output of the join.
Unwritables ==
  {{}} \cup {{BinPart(k), CsvPart(k)} : k \in 1..MaxParts}
       \cup {{OutputName(BinExt), OutputName(CsvExt)}}

\* A part that cannot be opened is looked at in the directories that hold
\* no part of an earlier run.
HoldsPart(dir) ==
  \E k \in 1..MaxParts : BinPart(k) \in DOMAIN dir \/ CsvPart(k) \in DOMAIN dir

UnwritablesIn(dir) ==
  IF HoldsPart(dir)
  THEN {u \in Unwritables : \A k \in 1..MaxParts : BinPart(k) \notin u}
  ELSE Unwritables

(***************************************************************************)
(* State.                                                                  *)
(***************************************************************************)
VARIABLES
  fs,            \* the working directory: path -> content
  unwritable,    \* paths whose open for writing fails
  pc,            \* where main is: "main", an operation's loop, "chunked", "joined"
  fullFilePath,  \* chunkFile's fullFilePath, chunkCSV's csvPath
  chunkName,     \* chunkFile/joinFile's chunkName, chunkCSV/joinCSV's chunkPrefix
  chunkSize,     \* chunk size or threshold, in bytes
  extension,     \* chunkFile's originalExtension, joinFile's extension
  fileOutput,    \* joinFile's fileOutput, joinCSV's outputFile
  counter,       \* the part counter of the running operation
  rpos,          \* read offset of the chunker's input stream
  eofbit,        \* eofbit of the chunker's input stream
  snapshot,      \* what the input stream may hold buffered: the source as opened
  output,        \* chunkCSV: the path its ofstream has open, or None
  currentSize,   \* chunkCSV: data bytes written to the current part
  headerLine,    \* chunkCSV: the header line
  isFirstChunk,  \* joinCSV: no header written yet
  fileFound,     \* joinFile: the last probe found a part
  fs0,           \* history: the directory when the chunk operation was called
  fsJ,           \* history: the directory when the join operation was called
  created,       \* history: the parts the chunker opened for writing, in order
  readLog,       \* history: the part indices the joiner opened and read, in order
  failedOpens,   \* history: failed opens of a part by the chunker (capped)
  chunkResult,   \* history: how the chunk operation ended
  joinResult,    \* history: how the join operation ended
  io             \* history: the opens, probes and closes of the running operation

args == <<fullFilePath, chunkName, chunkSize, extension, fileOutput>>
chunkLocals == <<counter, rpos, eofbit, snapshot, output, currentSize, headerLine>>
joinLocals == <<isFirstChunk, fileFound>>
chunkHist == <<fs0, created, failedOpens, chunkResult>>
joinHist == <<fsJ, readLog, joinResult>>
vars ==
  <<fs, unwritable, pc, args, chunkLocals, joinLocals, chunkHist, joinHist, io>>

\* The stream events the history io records.  A probe is an attempt to open
\* a part; kind is "source", "part" or "output".
Event(what, kind, path) == [what |-> what, kind |-> kind, path |-> path]
Probed(log, kind, path) == Append(log, Event("probe", kind, path))
Opened(log, kind, path) == Append(log, Event("open", kind, path))
Closed(log, kind, path) == Append(log, Event("close", kind, path))

\* A part probed, opened, used and closed within one iteration
\* (program.cpp 31-36, 66-79, 163-183).
OpenedAndClosed(log, kind, path) ==
  Closed(Opened(Probed(log, kind, path), kind, path), kind, path)

\* program.cpp 110-112 and 136-138: if (output.is_open()) output.close().
CloseIfOpenForgotten(log, out) == log
CloseIfOpen(log, out) == IF out # None THEN Closed(log, "part", out) ELSE log

Exists(path) == path \in DOMAIN fs

\* ofstream::open(path, ios::out | ios::trunc): the file exists and is empty.
Truncate(dir, path) == WithFile(dir, path, <<>>)

\* output << line << "\n" on the open file path.
WriteLine(dir, path, line) == [dir EXCEPT ![path] = WriteLine0(@, line)]

\* Bytes written to an open file reach it at its end.
WriteOverwrite(dir, path, bytes) == [dir EXCEPT ![path] = bytes]
Write(dir, path, bytes) == [dir EXCEPT ![path] = @ \o bytes]

\* main 195-216: the file path, the prefix and the chunk size are read (the
\* size here directly in bytes), and the extension is taken from the path.
Init ==
  /\ \E sc \in Scenarios :
       /\ sc.path \in DOMAIN sc.dir \cup {BinSource, CsvSource}
       /\ fs = sc.dir
       /\ fullFilePath = sc.path
  /\ unwritable \in UnwritablesIn(fs)
  /\ pc = "main"
  /\ chunkName = Prefix
  /\ chunkSize \in 0..MaxChunk
  /\ extension = OriginalExtension(fullFilePath)
  /\ fileOutput = None
  /\ counter = 0 /\ rpos = 0 /\ eofbit = FALSE /\ snapshot = <<>>
  /\ output = None /\ currentSize = 0 /\ headerLine = <<>>
  /\ isFirstChunk = TRUE /\ fileFound = TRUE
  /\ fs0 = fs /\ fsJ = fs
  /\ created = <<>> /\ readLog = <<>> /\ failedOpens = 0
  /\ chunkResult = "none" /\ joinResult = "none"
  /\ io = <<>>

(***************************************************************************)
(* chunkFile (program.cpp 8-48).                                           *)
(***************************************************************************)
\* What a read of the input stream can see: the file as it is now, or, once
\* something has been read, the bytes the stream buffered when the file was
\* still as opened.
Views(dir) ==
  {IF fullFilePath \in DOMAIN dir THEN dir[fullFilePath] ELSE <<>>}
  \cup (IF rpos > 0 THEN {snapshot} ELSE {})

chunkFile_CallCreatesSource ==
  /\ pc = "main"
  /\ extension = BinExt
  /\ IF Exists(fullFilePath)
     THEN /\ pc' = "chunkFile"
          /\ counter' = 1
          /\ snapshot' = fs[fullFilePath]
          /\ UNCHANGED <<fs, chunkResult>>
     ELSE /\ pc' = "chunked"
          /\ chunkResult' = "SourceOpenError"
          /\ fs' = Truncate(fs, fullFilePath)
          /\ UNCHANGED <<counter, snapshot>>
  /\ io' = IF Exists(fullFilePath)
            THEN Opened(<<>>, "source", fullFilePath) ELSE <<>>
  /\ UNCHANGED <<unwritable, args, rpos, eofbit, output, currentSize,
                 headerLine, joinLocals, fs0, created, failedOpens, joinHist>>

\* main 226-228 and lines 9-25: open the source; on failure report and
\* return.
chunkFile_Call ==
  /\ pc = "main"
  /\ extension = BinExt
  /\ IF Exists(fullFilePath)
     THEN /\ pc' = "chunkFile"
          /\ counter' = 1
          /\ snapshot' = fs[fullFilePath]
          /\ UNCHANGED chunkResult
     ELSE /\ pc' = "chunked"
          /\ chunkResult' = "SourceOpenError"
          /\ UNCHANGED <<counter, snapshot>>
  /\ io' = IF Exists(fullFilePath)
            THEN Opened(<<>>, "source", fullFilePath) ELSE <<>>
  /\ UNCHANGED <<fs, unwritable, args, rpos, eofbit, output, currentSize,
                 headerLine, joinLocals, fs0, created, failedOpens, joinHist>>

\* Lines 28-40: one iteration of the read loop with the part opened.  With
\* chunk size 0 no read ever sets eof and the counter grows without end: the
\* counters above MaxLen + 2 are folded onto MaxLen + 2 and MaxLen + 3, and
\* a part met again there is neither recorded nor logged a second time.
chunkFile_Iter ==
  /\ pc = "chunkFile"
  /\ ~eofbit
  /\ LET fullChunkName == PartName(chunkName, counter,
                                   OriginalExtension(fullFilePath))
         opened == Truncate(fs, fullChunkName)
         again == \E i \in 1..Len(created) : created[i] = fullChunkName
     IN  /\ fullChunkName \notin unwritable
         /\ \E view \in Views(opened) :
              LET got == ReadBytes(view, rpos, chunkSize)
              IN  /\ fs' = Write(opened, fullChunkName, got)
                  /\ rpos' = rpos + Len(got)
                  /\ eofbit' = (Len(got) < chunkSize)
         /\ created' = IF again THEN created
                       ELSE Append(created, fullChunkName)
         /\ io' = IF again THEN io
                  ELSE OpenedAndClosed(io, "part", fullChunkName)
         /\ counter' = IF counter > MaxLen + 2 THEN MaxLen + 2
                       ELSE counter + 1
  /\ UNCHANGED <<unwritable, pc, args, snapshot, output, currentSize, headerLine,
                 joinLocals, fs0, failedOpens, chunkResult, joinHist>>

\* Lines 28-40: one iteration with the part not opened: nothing is read,
\* the counter stays, and the loop goes round again.
chunkFile_IterNoOpen ==
  /\ pc = "chunkFile"
  /\ ~eofbit
  /\ PartName(chunkName, counter, OriginalExtension(fullFilePath))
       \in unwritable
  /\ failedOpens' = Min(failedOpens + 1, MaxRetry)
  /\ io' = IF failedOpens < MaxRetry
            THEN Probed(io, "part",
                        PartName(chunkName, counter, OriginalExtension(fullFilePath)))
            ELSE io
  /\ UNCHANGED <<fs, unwritable, pc, args, chunkLocals, joinLocals, fs0, created,
                 chunkResult, joinHist>>

\* Lines 42-44: the loop has ended.
chunkFile_Return ==
  /\ pc = "chunkFile"
  /\ eofbit
  /\ pc' = "chunked"
  /\ chunkResult' = "ok"
  /\ io' = Closed(io, "source", fullFilePath)
  /\ UNCHANGED <<fs, unwritable, args, chunkLocals, joinLocals, fs0, created,
                 failedOpens, joinHist>>

(***************************************************************************)
(* joinFile (program.cpp 51-89), called by main (228-232) after chunkFile  *)
(* with the same prefix and the source's extension.                        *)
(***************************************************************************)
\* Lines 52-61: open (and so truncate) the output; on failure report and return.
joinFile_Call ==
  /\ pc = "chunked"
  /\ extension = BinExt
  /\ LET out == OutputName(extension)
     IN  /\ fileOutput' = out
         /\ fsJ' = fs
         /\ IF out \in unwritable
            THEN /\ pc' = "joined"
                 /\ joinResult' = "DestinationOpenError"
                 /\ UNCHANGED <<fs, counter, fileFound>>
            ELSE /\ pc' = "joinFile"
                 /\ fs' = Truncate(fs, out)
                 /\ counter' = 1
                 /\ fileFound' = TRUE
                 /\ UNCHANGED joinResult
  /\ io' = IF OutputName(extension) \in unwritable
            THEN <<>> ELSE Opened(<<>>, "output", OutputName(extension))
  /\ UNCHANGED <<unwritable, fullFilePath, chunkName, chunkSize, extension,
                 rpos, eofbit, snapshot, output, currentSize, headerLine,
                 isFirstChunk, chunkHist, readLog>>

joinFile_IterSkipMissing ==
  /\ pc = "joinFile"
  /\ fileFound
  /\ LET fileName == PartName(chunkName, counter, extension)
     IN  IF Exists(fileName)
         THEN /\ fs' = Write(fs, fileOutput, fs[fileName])
              /\ readLog' = Append(readLog, counter)
              /\ UNCHANGED fileFound
         ELSE /\ fileFound' = (counter < MaxParts)
              /\ UNCHANGED <<fs, readLog>>
  /\ counter' = counter + 1
  /\ io' = IF Exists(PartName(chunkName, counter, extension))
            THEN OpenedAndClosed(io, "part", PartName(chunkName, counter, extension))
            ELSE Probed(io, "part", PartName(chunkName, counter, extension))
  /\ UNCHANGED <<unwritable, pc, args, rpos, eofbit, snapshot, output,
                 currentSize, headerLine, isFirstChunk, chunkHist, fsJ,
                 joinResult>>

\* Lines 63-85: probe the next part; copy it whole to the output if it opens.
joinFile_Iter ==
  /\ pc = "joinFile"
  /\ fileFound
  /\ LET fileName == PartName(chunkName, counter, extension)
     IN  IF Exists(fileName)
         THEN /\ fs' = Write(fs, fileOutput, fs[fileName])
              /\ readLog' = Append(readLog, counter)
              /\ UNCHANGED fileFound
         ELSE /\ fileFound' = FALSE
              /\ UNCHANGED <<fs, readLog>>
  /\ counter' = counter + 1
  /\ io' = IF Exists(PartName(chunkName, counter, extension))
            THEN OpenedAndClosed(io, "part", PartName(chunkName, counter, extension))
            ELSE Probed(io, "part", PartName(chunkName, counter, extension))
  /\ UNCHANGED <<unwritable, pc, args, rpos, eofbit, snapshot, output,
                 currentSize, headerLine, isFirstChunk, chunkHist, fsJ,
                 joinResult>>

\* Lines 87-88: close the output.
joinFile_Return ==
  /\ pc = "joinFile"
  /\ ~fileFound
  /\ pc' = "joined"
  /\ joinResult' = "ok"
  /\ io' = Closed(io, "output", fileOutput)
  /\ UNCHANGED <<fs, unwritable, args, chunkLocals, joinLocals, chunkHist, fsJ,
                 readLog>>

(***************************************************************************)
(* chunkCSV (program.cpp 92-145).                                          *)
(***************************************************************************)
\* getline on the input stream seeing content view.
InputLine(view) ==
  IF eofbit
  THEN [ok |-> FALSE, line |-> <<>>, pos |-> rpos, eof |-> TRUE]
  ELSE GetLine(view, rpos)

\* Lines 115-124: the new part is opened, truncated, and gets the header.
OpenChunkNoHeader(dir, chunk, header) == Truncate(dir, chunk)
OpenChunk(dir, chunk, header) == WriteLine(Truncate(dir, chunk), chunk, header)

\* Line 109: the current line starts a new part.
NewChunkIgnoresLine(size, line, limit) == size = 0 \/ size > limit
NewChunk(size, line, limit) == size = 0 \/ size + Len(line) > limit

\* main 219-221 and lines 93-105: open the source and read the header line.
\* With no line at all in the source the loop is skipped and chunkCSV
\* returns (136-141).
chunkCSV_Call ==
  /\ pc = "main"
  /\ extension = CsvExt
  /\ IF Exists(fullFilePath)
     THEN LET g == GetLine(fs[fullFilePath], 0)
          IN  /\ snapshot' = fs[fullFilePath]
              /\ rpos' = g.pos
              /\ eofbit' = g.eof
              /\ headerLine' = g.line
              /\ counter' = 1
              /\ currentSize' = 0
              /\ IF g.ok
                 THEN pc' = "chunkCSV" /\ UNCHANGED chunkResult
                 ELSE pc' = "chunked" /\ chunkResult' = "ok"
     ELSE /\ pc' = "chunked"
          /\ chunkResult' = "SourceOpenError"
          /\ UNCHANGED <<snapshot, rpos, eofbit, headerLine, counter,
                         currentSize>>
  /\ io' = IF ~Exists(fullFilePath) THEN <<>>
            ELSE IF GetLine(fs[fullFilePath], 0).ok
            THEN Opened(<<>>, "source", fullFilePath)
            ELSE Closed(Opened(<<>>, "source", fullFilePath), "source",
                        fullFilePath)
  /\ UNCHANGED <<fs, unwritable, args, output, joinLocals, fs0, created,
                 failedOpens, joinHist>>

\* Lines 107-133 with a data line read: it goes to the current part, or the
\* current part is closed and the line goes, after the header, to a new one.
chunkCSV_Iter ==
  /\ pc = "chunkCSV"
  /\ \E view \in Views(fs) :
       LET g == InputLine(view)
           chunk == CsvPartName(chunkName, counter)
       IN  /\ g.ok
           /\ rpos' = g.pos
           /\ eofbit' = g.eof
           /\ IF NewChunk(currentSize, g.line, chunkSize)
              THEN /\ chunk \notin unwritable
                   /\ fs' = WriteLine(OpenChunk(fs, chunk, headerLine), chunk,
                                      g.line)
                   /\ output' = chunk
                   /\ io' = Opened(Probed(CloseIfOpen(io, output), "part",
                                          chunk), "part", chunk)
                   /\ created' = Append(created, chunk)
                   /\ counter' = counter + 1
                   /\ currentSize' = Len(g.line)
              ELSE /\ fs' = WriteLine(fs, output, g.line)
                   /\ currentSize' = currentSize + Len(g.line)
                   /\ UNCHANGED <<output, created, counter, io>>
  /\ UNCHANGED <<unwritable, pc, args, snapshot, headerLine, joinLocals, fs0,
                 failedOpens, chunkResult, joinHist>>

chunkCSV_IterNoOpenNoReturn ==
  /\ pc = "chunkCSV"
  /\ \E view \in Views(fs) :
       LET g == InputLine(view)
       IN  /\ g.ok
           /\ NewChunk(currentSize, g.line, chunkSize)
           /\ CsvPartName(chunkName, counter) \in unwritable
           /\ rpos' = g.pos
           /\ eofbit' = g.eof
  /\ output' = None
  /\ failedOpens' = Min(failedOpens + 1, MaxRetry)
  /\ io' = Probed(CloseIfOpen(io, output), "part", CsvPartName(chunkName, counter))
  /\ UNCHANGED <<fs, unwritable, pc, args, counter, snapshot, currentSize,
                 headerLine, joinLocals, fs0, created, chunkResult, joinHist>>

\* Lines 107-121 with a data line read that starts a new part whose file
\* does not open: the current part is closed (110-112), the error is
\* reported and chunkCSV returns.
chunkCSV_IterNoOpen ==
  /\ pc = "chunkCSV"
  /\ \E view \in Views(fs) :
       LET g == InputLine(view)
       IN  /\ g.ok
           /\ NewChunk(currentSize, g.line, chunkSize)
           /\ CsvPartName(chunkName, counter) \in unwritable
           /\ rpos' = g.pos
           /\ eofbit' = g.eof
  /\ output' = None
  /\ failedOpens' = Min(failedOpens + 1, MaxRetry)
  /\ pc' = "chunked"
  /\ chunkResult' = "PartWriteError"
  /\ io' = Closed(Probed(CloseIfOpen(io, output), "part",
                          CsvPartName(chunkName, counter)),
                   "source", fullFilePath)
  /\ UNCHANGED <<fs, unwritable, args, counter, snapshot, currentSize,
                 headerLine, joinLocals, fs0, created, joinHist>>

\* Lines 107 and 136-141: no further line; close the current part and return.
chunkCSV_Return ==
  /\ pc = "chunkCSV"
  /\ \E view \in Views(fs) : ~InputLine(view).ok
  /\ eofbit' = TRUE
  /\ output' = None
  /\ pc' = "chunked"
  /\ chunkResult' = "ok"
  /\ io' = Closed(CloseIfOpen(io, output), "source", fullFilePath)
  /\ UNCHANGED <<fs, unwritable, args, counter, rpos, snapshot, currentSize,
                 headerLine, joinLocals, fs0, created, failedOpens, joinHist>>

(***************************************************************************)
(* joinCSV (program.cpp 147-189), called by main (219-225) after chunkCSV  *)
(* with the same prefix and output "output.csv".                           *)
(***************************************************************************)
RECURSIVE WriteLines(_, _)
WriteLines(c, ls) ==
  IF ls = <<>> THEN c ELSE WriteLines(WriteLine0(c, Head(ls)), Tail(ls))

\* Lines 169-181: what one part adds to the output.
CopyChunkKeepHeaders(c, ls, first) == WriteLines(c, ls)
CopyChunk(c, ls, first) ==
  IF ls = <<>> THEN c
  ELSE WriteLines(IF first THEN WriteLine0(c, Head(ls)) ELSE c, Tail(ls))

\* Lines 148-158: open (and so truncate) the output.
joinCSV_Call ==
  /\ pc = "chunked"
  /\ extension = CsvExt
  /\ LET out == OutputName(CsvExt)
     IN  /\ fileOutput' = out
         /\ fsJ' = fs
         /\ IF out \in unwritable
            THEN /\ pc' = "joined"
                 /\ joinResult' = "DestinationOpenError"
                 /\ UNCHANGED <<fs, counter, isFirstChunk>>
            ELSE /\ pc' = "joinCSV"
                 /\ fs' = Truncate(fs, out)
                 /\ counter' = 1
                 /\ isFirstChunk' = TRUE
                 /\ UNCHANGED joinResult
  /\ io' = IF OutputName(CsvExt) \in unwritable
            THEN <<>> ELSE Opened(<<>>, "output", OutputName(CsvExt))
  /\ UNCHANGED <<unwritable, fullFilePath, chunkName, chunkSize, extension,
                 rpos, eofbit, snapshot, output, currentSize, headerLine,
                 fileFound, chunkHist, readLog>>

Restrict(f, S) == [x \in S |-> f[x]]

joinCSV_IterConsume ==
  /\ pc = "joinCSV"
  /\ LET chunk == CsvPartName(chunkName, counter)
     IN  /\ Exists(chunk)
         /\ LET ls == Lines(fs[chunk])
                copied == [fs EXCEPT ![fileOutput] = CopyChunk(@, ls, isFirstChunk)]
            IN  /\ fs' = Restrict(copied, DOMAIN fs \ {chunk})
                /\ isFirstChunk' = (isFirstChunk /\ ls = <<>>)
  /\ readLog' = Append(readLog, counter)
  /\ counter' = counter + 1
  /\ io' = OpenedAndClosed(io, "part", CsvPartName(chunkName, counter))
  /\ UNCHANGED <<unwritable, pc, args, rpos, eofbit, snapshot, output,
                 currentSize, headerLine, fileFound, chunkHist, fsJ, joinResult>>

\* Lines 160-185 with the probed part open: its first line is written if no
\* header was written yet, its other lines always.
joinCSV_Iter ==
  /\ pc = "joinCSV"
  /\ LET chunk == CsvPartName(chunkName, counter)
     IN  /\ Exists(chunk)
         /\ LET ls == Lines(fs[chunk])
            IN  /\ fs' = [fs EXCEPT ![fileOutput] = CopyChunk(@, ls, isFirstChunk)]
                /\ isFirstChunk' = (isFirstChunk /\ ls = <<>>)
  /\ readLog' = Append(readLog, counter)
  /\ counter' = counter + 1
  /\ io' = OpenedAndClosed(io, "part", CsvPartName(chunkName, counter))
  /\ UNCHANGED <<unwritable, pc, args, rpos, eofbit, snapshot, output,
                 currentSize, headerLine, fileFound, chunkHist, fsJ, joinResult>>

\* Lines 165-167 and 187-188: the probe fails; close the output.
joinCSV_Return ==
  /\ pc = "joinCSV"
  /\ ~Exists(CsvPartName(chunkName, counter))
  /\ pc' = "joined"
  /\ joinResult' = "ok"
  /\ io' = Closed(Probed(io, "part", CsvPartName(chunkName, counter)), "output", fileOutput)
  /\ UNCHANGED <<fs, unwritable, args, chunkLocals, joinLocals, chunkHist, fsJ,
                 readLog>>

Next ==
  \/ chunkFile_Call
  \/ chunkFile_Iter
  \/ chunkFile_IterNoOpen
  \/ chunkFile_Return
  \/ joinFile_Call
  \/ joinFile_Iter
  \/ joinFile_Return
  \/ chunkCSV_Call
  \/ chunkCSV_Iter
  \/ chunkCSV_IterNoOpen
  \/ chunkCSV_Return
  \/ joinCSV_Call
  \/ joinCSV_Iter
  \/ joinCSV_Return

Spec == Init /\ [][Next]_vars

\* main's binary branch alone (program.cpp 226-229): the call of chunkFile
\* and its read loop, for the question whether the loop ends.
ChunkFileInit == Init /\ extension = BinExt

ChunkFileNext ==
  \/ chunkFile_Call
  \/ chunkFile_Iter
  \/ chunkFile_IterNoOpen
  \/ chunkFile_Return

\* The process runs on: no step of the program is put off forever.
FairSpec ==
  ChunkFileInit /\ [][ChunkFileNext]_vars /\ WF_vars(ChunkFileNext)

(***************************************************************************)
(* Notions the properties are stated in.                                   *)
(***************************************************************************)
IsBinary == extension = BinExt
IsCsv == extension = CsvExt

\* The part path of index k of the running pipeline.
Part(k) ==
  IF IsCsv THEN CsvPartName(chunkName, k) ELSE PartName(chunkName, k, extension)

\* The source as it was when the chunk operation was called.
SourceExisted == fullFilePath \in DOMAIN fs0
Source0 == fs0[fullFilePath]

\* No file of the directory at the call of the chunker has a part's name.
MaxIndex == MaxLen + MaxLines + MaxParts + 3
CleanDirectory == \A k \in 1..MaxIndex : Part(k) \notin DOMAIN fs0

\* Both operations ran to their end without an open error.
ChunkedAndJoined ==
  pc = "joined" /\ chunkResult = "ok" /\ joinResult = "ok"

\* C1: binary round trip.  From a directory holding no file with a part's
\* name, for a non-empty source and a chunk size >= 1, once chunkFile and
\* then joinFile (same prefix, the source's extension) have completed, the
\* output holds exactly the source's bytes in the source's order.
C1_BinaryRoundTrip ==
  (/\ ChunkedAndJoined /\ IsBinary /\ CleanDirectory
   /\ chunkSize >= 1 /\ SourceExisted /\ Len(Source0) >= 1)
  => fs[fileOutput] = Source0

C1_Witness ==
  /\ ChunkedAndJoined /\ IsBinary /\ CleanDirectory
  /\ chunkSize = 2 /\ SourceExisted /\ Source0 = <<"A", "B", "B">>
  /\ Len(created) = 2 /\ readLog = <<1, 2>>
  /\ fs[fileOutput] = <<"A", "B", "B">>

\* C2: line-oriented round trip.  From a directory holding no file with a
\* part's name, for a source with a header and at least one data line and a
\* threshold >= 1, once chunkCSV and then joinCSV have completed, the output
\* is the header line, once, followed by the source's data lines in their
\* order, each written with one newline.
C2_CsvRoundTrip ==
  (/\ ChunkedAndJoined /\ IsCsv /\ CleanDirectory
   /\ chunkSize >= 1 /\ SourceExisted /\ Len(Lines(Source0)) >= 2)
  => /\ fs[fileOutput] = WriteLines(<<>>, Lines(Source0))
     /\ Lines(fs[fileOutput]) = Lines(Source0)

C2_Witness ==
  /\ ChunkedAndJoined /\ IsCsv /\ CleanDirectory
  /\ chunkSize = 1 /\ SourceExisted
  /\ Lines(Source0) = << <<"h">>, <<"a">>, <<>>, <<"a">> >>
  /\ Len(created) = 2
  /\ Lines(fs[fileOutput]) = << <<"h">>, <<"a">>, <<>>, <<"a">> >>

\* C3: when a part file of chunkFile does not open for writing, chunkFile
\* has terminated after that one failed open: it is no longer in its loop
\* and has made no second attempt.
C3_ChunkFileStopsOnPartOpenFailure ==
  (IsBinary /\ failedOpens >= 1) => (pc # "chunkFile" /\ failedOpens = 1)

\* ceil(a / b).
CeilDiv(a, b) == (a + b - 1) \div b

\* C4: chunkFile, completed on a source of S bytes with chunk size T >= 1,
\* has created exactly ceil(S/T) parts (none for S = 0, no empty part when T
\* divides S).  Stated for a source that is not itself named like a part.
C4_PartCountIsCeiling ==
  (/\ pc = "chunked" /\ IsBinary /\ chunkResult = "ok" /\ chunkSize >= 1
   /\ fullFilePath = BinSource)
  => Len(created) = CeilDiv(Len(Source0), chunkSize)

\* The bytes of the source as called that belong to part i.
ExpectedPart(i) ==
  SubSeq(Source0, (i - 1) * chunkSize + 1, Min(i * chunkSize, Len(Source0)))

LayoutHolds ==
  \A i \in 1..Len(created) :
    /\ created[i] = Part(i)
    /\ fs[Part(i)] = ExpectedPart(i)
    /\ Len(fs[Part(i)]) <= chunkSize
    /\ (i < Len(created) => Len(fs[Part(i)]) = chunkSize)

\* C5: after chunkFile completes on a source of S bytes with chunk size
\* T >= 1, the parts created are numbered 1..N, part i holds the source
\* bytes at offsets [(i-1)*T, min(i*T, S)), every part but the last holds T
\* bytes and none holds more.
C5_Layout ==
  (pc = "chunked" /\ IsBinary /\ chunkResult = "ok" /\ chunkSize >= 1)
  => LayoutHolds

\* The layout of C5 for a source whose path is not the name of a part.
C5_LayoutSourceNotAPart ==
  (/\ pc = "chunked" /\ IsBinary /\ chunkResult = "ok" /\ chunkSize >= 1
   /\ fullFilePath = BinSource)
  => LayoutHolds

\* The smallest index >= k whose part is not in dir.
RECURSIVE FirstMissing(_, _)
FirstMissing(dir, k) ==
  IF Part(k) \notin DOMAIN dir THEN k ELSE FirstMissing(dir, k + 1)

\* The contents of parts i..n of dir, one after the other.
RECURSIVE ConcatParts(_, _, _)
ConcatParts(dir, i, n) ==
  IF i > n THEN <<>> ELSE dir[Part(i)] \o ConcatParts(dir, i + 1, n)

UpTo(n) == [i \in 1..n |-> i]

\* C6: a join whose output opens reads exactly the parts 1..k-1, k the
\* smallest index whose part does not exist, and ends without error; the
\* binary output is those parts' bytes in order; with part 1 missing the
\* output is empty, and with part 2 missing it holds part 1's content only.
C6_StopOnFirstMiss ==
  LET k == FirstMissing(fsJ, 1)
  IN  /\ pc \in {"joinFile", "joinCSV"}
         => \E n \in 0..(k - 1) : readLog = UpTo(n)
      /\ (pc = "joined" /\ fileOutput \notin unwritable)
         => /\ joinResult = "ok"
            /\ readLog = UpTo(k - 1)
            /\ IsBinary => fs[fileOutput] = ConcatParts(fsJ, 1, k - 1)
            /\ k = 1 => fs[fileOutput] = <<>>
            /\ (IsCsv /\ k = 2)
               => fs[fileOutput] = WriteLines(<<>>, Lines(fsJ[Part(1)]))

C6_Witness ==
  /\ pc = "joined" /\ IsBinary /\ joinResult = "ok"
  /\ Part(1) \in DOMAIN fsJ /\ Part(2) \notin DOMAIN fsJ
  /\ Part(3) \in DOMAIN fsJ
  /\ fileOutput \in DOMAIN fsJ
  /\ readLog = <<1>>
  /\ fs[fileOutput] = fsJ[Part(1)]

\* The created parts that chunkCSV's stream no longer has open.
ClosedParts == {i \in 1..Len(created) : created[i] # output}

\* C7: every part chunkCSV has created and closed starts with the source's
\* header line and holds at least one data line; a source with no data line
\* (or no line at all) gives no part.
C7_PartsHaveHeaderAndData ==
  (IsCsv /\ SourceExisted)
  => /\ \A i \in ClosedParts :
          LET ls == Lines(fs[created[i]])
          IN  Len(ls) >= 2 /\ ls[1] = Lines(Source0)[1]
     /\ (pc = "chunked" /\ Len(Lines(Source0)) <= 1) => created = <<>>

C7_Witness ==
  /\ pc = "chunked" /\ IsCsv /\ chunkResult = "ok"
  /\ Len(created) = 3 /\ ClosedParts = {1, 2, 3}
  /\ \A i \in 1..3 : Lines(fs[created[i]])[1] = <<"h">>

\* C8: after the chunk operation returns, the source holds what it held
\* when the operation was called.
C8_SourceUnchanged ==
  (pc = "chunked" /\ SourceExisted)
  => (fullFilePath \in DOMAIN fs /\ fs[fullFilePath] = Source0)

\* C9: during and after a join every file that existed when the join was
\* called, other than the output path, exists with the same content; no
\* other file appears; and no part's path is the output path.
C9_JoinLeavesParts ==
  (pc \in {"joinFile", "joinCSV", "joined"})
  => /\ \A n \in DOMAIN fsJ :
          n # fileOutput => (n \in DOMAIN fs /\ fs[n] = fsJ[n])
     /\ DOMAIN fs \subseteq DOMAIN fsJ \cup {fileOutput}
     /\ \A k \in 1..MaxIndex : Part(k) # fileOutput

C9_Witness ==
  /\ pc = "joined" /\ joinResult = "ok" /\ IsCsv
  /\ Len(readLog) >= 2
  /\ fileOutput \notin DOMAIN fsJ /\ fileOutput \in DOMAIN fs
  /\ \A i \in 1..2 : fs[Part(i)] = fsJ[Part(i)]

\* The runs of data lines that a run of chunkCSV with every part writable
\* puts in parts 1, 2, ...
RECURSIVE GroupLines(_, _, _, _)
GroupLines(ls, limit, groups, size) ==
  IF ls = <<>> THEN groups
  ELSE LET l == Head(ls)
       IN  IF size = 0 \/ size + Len(l) > limit
           THEN GroupLines(Tail(ls), limit, Append(groups, <<l>>), Len(l))
           ELSE GroupLines(Tail(ls), limit,
                           [groups EXCEPT ![Len(groups)] = Append(@, l)],
                           size + Len(l))

ExpectedCsvPart(i) ==
  LET ls == Lines(Source0)
  IN  WriteLines(<<>>, <<Head(ls)>> \o GroupLines(Tail(ls), chunkSize, <<>>, 0)[i])

\* C10: once chunkCSV has failed to open part k, it has returned after that
\* one failure with no part open; parts 1..k-1 are the parts it created and
\* hold what a run without the failure gives them; and every file with a
\* part index >= k is as it was before the call.
C10_ChunkCSVStopsOnPartOpenFailure ==
  (IsCsv /\ failedOpens >= 1)
  => LET k == Len(created) + 1
     IN  /\ pc \in {"chunked", "joinCSV", "joined"}
         /\ chunkResult = "PartWriteError"
         /\ failedOpens = 1
         /\ output = None
         /\ Part(k) \in unwritable
         /\ \A i \in 1..(k - 1) :
              created[i] = Part(i) /\ fs[Part(i)] = ExpectedCsvPart(i)
         /\ \A j \in k..MaxIndex :
              IF Part(j) \in DOMAIN fs0
              THEN Part(j) \in DOMAIN fs /\ fs[Part(j)] = fs0[Part(j)]
              ELSE Part(j) \notin DOMAIN fs

C10_Witness ==
  /\ pc = "chunked" /\ IsCsv /\ chunkResult = "PartWriteError"
  /\ Len(created) = 2 /\ Part(3) \in unwritable
  /\ Part(1) \in DOMAIN fs /\ Part(2) \in DOMAIN fs
  /\ Part(3) \notin DOMAIN fs

\* C11: when the source cannot be opened, the chunk operation returns with
\* the directory exactly as it was at the call and no part created.
C11_SourceOpenErrorChangesNothing ==
  (pc = "chunked" /\ chunkResult = "SourceOpenError")
  => (fs = fs0 /\ created = <<>> /\ output = None)

C11_Witness ==
  /\ pc = "chunked" /\ chunkResult = "SourceOpenError" /\ IsBinary
  /\ fullFilePath \notin DOMAIN fs0
  /\ Part(1) \in DOMAIN fs /\ Part(2) \in DOMAIN fs

\* The data lines of a part: its lines after the header.
DataLinesOf(path) == Tail(Lines(fs[path]))

RECURSIVE SumLen(_)
SumLen(ls) == IF ls = <<>> THEN 0 ELSE Len(Head(ls)) + SumLen(Tail(ls))

\* C12: chunkCSV opens a new part for a data line exactly when the current
\* part has no data line yet or its data-line length plus the line's length
\* exceeds the threshold: so a part after the first is opened only for a
\* line that did not fit the one before, and a line that follows another in
\* a part fitted it, also after lines of length 0.
C12_NewPartOnlyWhenLineDoesNotFit ==
  IsCsv
  => /\ \A i \in 2..Len(created) :
          SumLen(DataLinesOf(created[i - 1]))
            + Len(DataLinesOf(created[i])[1]) > chunkSize
     /\ \A i \in 1..Len(created) :
          \A n \in 2..Len(DataLinesOf(created[i])) :
            SumLen(SubSeq(DataLinesOf(created[i]), 1, n)) <= chunkSize

\* C13: in every part chunkCSV created, the data lines' lengths sum to at
\* most the threshold, unless the part holds one data line only, longer than
\* the threshold; a data line longer than the threshold is alone in its part.
C13_ThresholdBound ==
  IsCsv
  => \A i \in 1..Len(created) :
       LET d == DataLinesOf(created[i])
       IN  /\ SumLen(d) <= chunkSize \/ (Len(d) = 1 /\ Len(d[1]) > chunkSize)
           /\ \A j \in 1..Len(d) : Len(d[j]) > chunkSize => Len(d) = 1

C13_Witness ==
  /\ pc = "chunked" /\ IsCsv /\ chunkResult = "ok" /\ chunkSize = 1
  /\ Len(created) = 2
  /\ DataLinesOf(created[1]) = << <<"a", CR>> >>
  /\ DataLinesOf(created[2]) = << <<CR>> >>

\* C16: every part chunkCSV wrote consists of lines ended by one newline
\* each and holds no carriage return.
C16_NoCarriageReturnInParts ==
  IsCsv
  => \A i \in 1..Len(created) :
       LET c == fs[created[i]]
       IN  /\ c = WriteLines(<<>>, Lines(c))
           /\ \A j \in 1..Len(c) : c[j] # CR

\* C17: after a chunk operation that created parts 1..N and the matching
\* join, the join has read exactly the parts 1..N, whatever the directory
\* held before.  Stated for a source that is not itself named like a part.
C17_JoinReadsOnlyCreatedParts ==
  (/\ ChunkedAndJoined /\ SourceExisted /\ chunkSize >= 1
   /\ fullFilePath \in {BinSource, CsvSource})
  => readLog = UpTo(Len(created))

\* The lines of a part after its first, none for a part without lines.
RestOfLines(c) == IF Lines(c) = <<>> THEN <<>> ELSE Tail(Lines(c))

\* The lines after the first of parts i..n of dir, part after part.
RECURSIVE RestOfParts(_, _, _)
RestOfParts(dir, i, n) ==
  IF i > n THEN <<>>
  ELSE RestOfLines(dir[Part(i)]) \o RestOfParts(dir, i + 1, n)

\* C14: the output of a completed joinCSV over the discovered parts 1..K is
\* the first line of part 1, once, followed by the lines after the first of
\* each part in order; no first line of a later part is written, also when
\* part 1 holds no line.
C14_HeaderOnlyFromFirstPart ==
  (pc = "joined" /\ IsCsv /\ joinResult = "ok")
  => LET K == FirstMissing(fsJ, 1) - 1
         first == IF K >= 1 /\ Lines(fsJ[Part(1)]) # <<>>
                  THEN <<Head(Lines(fsJ[Part(1)]))>> ELSE <<>>
     IN  fs[fileOutput] = WriteLines(<<>>, first \o RestOfParts(fsJ, 1, K))

\* The events of one sort and kind among the first n events of a log.
RECURSIVE CountEvents(_, _, _, _)
CountEvents(log, what, kind, n) ==
  IF n = 0 THEN 0
  ELSE CountEvents(log, what, kind, n - 1)
       + (IF log[n].what = what /\ log[n].kind = kind THEN 1 ELSE 0)

\* The handles of one kind open after the first n events of a log.
OpenHandles(log, kind, n) ==
  CountEvents(log, "open", kind, n) - CountEvents(log, "close", kind, n)

\* C15: at every point of each of the four operations at most one part
\* handle and at most one output handle are open, and no part handle is open
\* when a part file is probed or opened: the handle of part i is closed
\* before part i+1 is touched.
C15_HandleDiscipline ==
  \A n \in 1..Len(io) :
    /\ OpenHandles(io, "part", n) <= 1
    /\ OpenHandles(io, "output", n) <= 1
    /\ (io[n].kind = "part" /\ io[n].what \in {"probe", "open"})
       => OpenHandles(io, "part", n - 1) = 0

C15_Witness ==
  /\ pc = "joined" /\ IsBinary /\ joinResult = "ok" /\ Len(readLog) >= 2
  /\ OpenHandles(io, "part", Len(io)) = 0
  /\ OpenHandles(io, "output", Len(io)) = 0
  /\ \E n \in 1..Len(io) :
       /\ io[n] = Event("open", "part", Part(2))
       /\ OpenHandles(io, "output", n) = 1

\* C18: with every part file writable, chunkFile, once called, returns,
\* for every chunk size main can pass, zero included.
C18_ChunkFileTerminates ==
  (pc = "chunkFile" /\ unwritable = {}) ~> (pc = "chunked")

====
